---------------------------- MODULE Spec2Model ----------------------------
(***************************************************************************)
(* A model of the sanitize / identify / validate pipeline of the           *)
(* pubky-app-specs records PubkyAppPost (src/src/post.rs) and PubkyAppTag  *)
(* (src/src/tag.rs).                                                       *)
(*                                                                         *)
(* Text.  A Rust String is modelled as a run-length encoded sequence of    *)
(* characters: a sequence of runs [c |-> character, n |-> repetitions],    *)
(* n >= 1, no two adjacent runs carrying the same character.  A string     *)
(* of 50001 characters is then a value of a few runs, and the length       *)
(* limits of the code are kept at their real values.  Every operation      *)
(* on text (chars().count(), chars().take(n), trim(), to_lowercase(),      *)
(* format!) is computed on that representation character by character.     *)
(***************************************************************************)
EXTENDS Naturals, Sequences, FiniteSets, Bags, TLC

(***************************************************************************)
(* Characters                                                              *)
(***************************************************************************)
\* The printable ASCII characters, in code point order from U+0020; a
\* character that would read as a delimiter here is named by its code point.
Ascii ==
  <<" ", "!", "U+0022", "#", "$", "%", "&", "'", "U+0028", "U+0029",
    "U+002A", "+", ",", "-",
    ".", "/", "0", "1", "2", "3", "4", "5", "6", "7", "8", "9", ":", ";",
    "<", "=", ">", "?", "@", "A", "B", "C", "D", "E", "F", "G", "H", "I",
    "J", "K", "L", "M", "N", "O", "P", "Q", "R", "S", "T", "U", "V", "W",
    "X", "Y", "Z", "[", "U+005C", "]", "^", "_", "U+0060", "a", "b", "c", "d", "e",
    "f", "g", "h", "i", "j", "k", "l", "m", "n", "o", "p", "q", "r", "s",
    "t", "u", "v", "w", "x", "y", "z", "{", "|", "}", "~">>

\* One character outside ASCII: U+00E9, two bytes in UTF-8.
EAcute == "U+00E9"

\* The position of each ASCII character in the table.
AsciiIndex ==
  [c \in {Ascii[i] : i \in 1..Len(Ascii)} |->
     CHOOSE i \in 1..Len(Ascii) : Ascii[i] = c]

\* The Unicode scalar value of a character.
CodePoint(c) == IF c = EAcute THEN 233 ELSE 31 + AsciiIndex[c]

CharOf(cp) == IF cp = 233 THEN EAcute ELSE Ascii[cp - 31]

\* The UTF-8 encoding of a character (one or two bytes here).
Utf8(c) ==
  LET cp == CodePoint(c)
  IN  IF cp < 128 THEN <<cp>> ELSE <<192 + (cp \div 64), 128 + (cp % 64)>>

IsAsciiUpper(c) == CodePoint(c) >= 65 /\ CodePoint(c) <= 90
IsAsciiLower(c) == CodePoint(c) >= 97 /\ CodePoint(c) <= 122
IsAsciiAlpha(c) == IsAsciiUpper(c) \/ IsAsciiLower(c)
IsAsciiDigit(c) == CodePoint(c) >= 48 /\ CodePoint(c) <= 57

\* char::to_lowercase / char::to_uppercase on the characters of the model.
LowerChar(c) == IF IsAsciiUpper(c) THEN CharOf(CodePoint(c) + 32) ELSE c
UpperChar(c) == IF IsAsciiLower(c) THEN CharOf(CodePoint(c) - 32) ELSE c

\* char::is_whitespace on the characters of the model.
IsWhitespace(c) == c = " "

(***************************************************************************)
(* Strings                                                                 *)
(*                                                                         *)
(* An operator whose parameter is used more than once binds it first:      *)
(* Only({ body : x \in {parameter} }) evaluates the parameter once and     *)
(* the body on its value.                                                  *)
(***************************************************************************)
Only(S) == CHOOSE x \in S : TRUE

\* The sum of the values of a function to the positive integers.
Sum(f) == BagCardinality(f)

Run(c, n) == [c |-> c, n |-> n]

\* A sequence of runs with adjacent runs of one character merged: the
\* string it spells.  block[i] numbers the blocks of equal characters.
Normalize(rs0) ==
  Only({ [k \in 1..(IF rs = <<>> THEN 0 ELSE block[Len(rs)]) |->
            Only({ Run(rs[CHOOSE i \in B : TRUE].c, Sum([i \in B |-> rs[i].n]))
                     : B \in {{ i \in 1..Len(rs) : block[i] = k }} })]
           : rs \in {rs0},
             block \in {[i \in 1..Len(rs0) |->
                           Cardinality({ j \in 1..i :
                                           j = 1 \/ rs0[j].c # rs0[j - 1].c })]} })

\* String concatenation (format!, push_str).
Cat(s0, t0) ==
  Only({ IF s = <<>> THEN t
         ELSE IF t = <<>> THEN s
         ELSE IF s[Len(s)].c = t[1].c
              THEN SubSeq(s, 1, Len(s) - 1)
                   \o <<Run(t[1].c, s[Len(s)].n + t[1].n)>> \o Tail(t)
              ELSE s \o t
           : s \in {s0}, t \in {t0} })

\* The string of n repetitions of c ("a".repeat(n)).
Rep(c, n) == IF n = 0 THEN <<>> ELSE <<Run(c, n)>>

\* The string spelled by a sequence of characters.
Lit(cs0) == Only({ Normalize([i \in 1..Len(cs) |-> Run(cs[i], 1)]) : cs \in {cs0} })

\* s.chars().count()
CharsCount(s0) == Only({ Sum([i \in 1..Len(s) |-> s[i].n]) : s \in {s0} })

\* s.len(): the length in bytes of the UTF-8 encoding.
ByteLen(s0) ==
  Only({ Sum([i \in 1..Len(s) |-> s[i].n * Len(Utf8(s[i].c))]) : s \in {s0} })

\* The number of characters before run i of s.
CharsBefore(s, i) == CharsCount(SubSeq(s, 1, i - 1))

\* s.chars().take(k).collect::<String>()
CharsTake(s0, k0) ==
  Only({ [i \in 1..Cardinality({ i \in 1..Len(s) : CharsBefore(s, i) < k }) |->
            Run(s[i].c,
                IF CharsBefore(s, i) + s[i].n <= k THEN s[i].n
                ELSE k - CharsBefore(s, i))]
           : s \in {s0}, k \in {k0} })

\* str::trim: from the first to the last character that is no whitespace.
Trim(s0) ==
  Only({ Only({ IF kept = {} THEN <<>>
                ELSE SubSeq(s, CHOOSE i \in kept : \A j \in kept : i <= j,
                               CHOOSE i \in kept : \A j \in kept : i >= j)
                  : kept \in {{ i \in 1..Len(s) : ~IsWhitespace(s[i].c) }} })
           : s \in {s0} })

\* str::to_lowercase: every character mapped, equal neighbours merged.
ToLowercase(s0) ==
  Only({ Normalize([i \in 1..Len(s) |-> Run(LowerChar(s[i].c), s[i].n)])
           : s \in {s0} })

\* The uppercase spelling, character by character.
ToUppercase(s0) ==
  Only({ Normalize([i \in 1..Len(s) |-> Run(UpperChar(s[i].c), s[i].n)])
           : s \in {s0} })

\* The characters of a string, one by one (s.chars().collect::<Vec<_>>()).
Chars(s0) ==
  Only({ [i \in 1..CharsCount(s) |->
            s[CHOOSE k \in 1..Len(s) :
                before[k] < i /\ i <= before[k] + s[k].n].c]
           : s \in {s0},
             before \in {[k \in 1..Len(s0) |-> CharsBefore(s0, k)]} })

(***************************************************************************)
(* Results and options                                                     *)
(***************************************************************************)
\* Option<T>: the empty sequence is None, a one-element sequence is Some.
None == <<>>
Some(x) == <<x>>

\* Result<T, E>
Ok(v) == [ok |-> TRUE, val |-> v]
Err(e) == [ok |-> FALSE, err |-> e]

Min(a, b) == IF a <= b THEN a ELSE b

(***************************************************************************)
(* Url::parse and Url::to_string of the url crate, on the URIs of the      *)
(* model: leading and trailing spaces are stripped, a scheme (a letter,    *)
(* then letters, digits, + - . up to the first colon) is required, the     *)
(* scheme is lowercased; for a special scheme the slashes after the colon  *)
(* are skipped, the host is lowercased and must not be empty, and an       *)
(* empty path becomes "/"; for any other scheme the rest is kept.  Ports,  *)
(* credentials, percent-encoding and dot segments are not modelled, and    *)
(* no URI of the model has them.                                           *)
(***************************************************************************)
SpecialSchemes ==
  { <<"h", "t", "t", "p">>, <<"h", "t", "t", "p", "s">>, <<"w", "s">>,
    <<"w", "s", "s">>, <<"f", "t", "p">> }

IsSchemeChar(c) == IsAsciiAlpha(c) \/ IsAsciiDigit(c) \/ c \in {"+", "-", "."}

\* The least index of cs whose character is in stop; Len(cs) + 1 when there
\* is none.
Find(cs, stop) ==
  IF \E i \in 1..Len(cs) : cs[i] \in stop
  THEN CHOOSE i \in 1..Len(cs) :
         cs[i] \in stop /\ \A j \in 1..(i - 1) : cs[j] \notin stop
  ELSE Len(cs) + 1

\* The least index of cs whose character is not in skip; Len(cs) + 1 when
\* there is none.
Skip(cs, skip) ==
  IF \E i \in 1..Len(cs) : cs[i] \notin skip
  THEN CHOOSE i \in 1..Len(cs) :
         cs[i] \notin skip /\ \A j \in 1..(i - 1) : cs[j] \in skip
  ELSE Len(cs) + 1

\* The URL of a special scheme, from what follows the colon.
SpecialUrl(scheme, rest0) ==
  Only({ Only({ IF host = <<>> THEN Err("empty host")
                ELSE Ok(Lit(scheme \o <<":", "/", "/">>
                            \o [j \in 1..Len(host) |-> LowerChar(host[j])]
                            \o (IF path = <<>> THEN <<"/">> ELSE path)))
                  : host \in {SubSeq(rest, 1, Find(rest, {"/", "?", "#", "U+005C"}) - 1)},
                    path \in {SubSeq(rest, Find(rest, {"/", "?", "#", "U+005C"}), Len(rest))} })
           : rest \in {SubSeq(rest0, Skip(rest0, {"/", "U+005C"}), Len(rest0))} })

UrlParse(s) ==
  Only({ Only({ IF ~( /\ colon >= 2
                      /\ colon <= Len(cs)
                      /\ IsAsciiAlpha(cs[1])
                      /\ \A j \in 2..(colon - 1) : IsSchemeChar(cs[j]) )
                THEN Err("relative URL without a base")
                ELSE Only({ IF scheme \in SpecialSchemes
                            THEN SpecialUrl(scheme, SubSeq(cs, colon + 1, Len(cs)))
                            ELSE Ok(Lit(scheme \o <<":">>
                                        \o SubSeq(cs, colon + 1, Len(cs))))
                              : scheme \in {[j \in 1..(colon - 1) |-> LowerChar(cs[j])]} })
                  : colon \in {Find(cs, {":"})} })
           : cs \in {Chars(Trim(s))} })

(***************************************************************************)
(* Canonical encoder and identifier derivation (crate::traits)             *)
(***************************************************************************)
\* The Crockford base-32 alphabet.
CrockfordAlphabet ==
  <<"0", "1", "2", "3", "4", "5", "6", "7", "8", "9", "A", "B", "C", "D",
    "E", "F", "G", "H", "J", "K", "M", "N", "P", "Q", "R", "S", "T", "V",
    "W", "X", "Y", "Z">>

CrockfordChars == {CrockfordAlphabet[k] : k \in 1..Len(CrockfordAlphabet)}

Pow2(k) == CASE k = 0 -> 1 [] k = 1 -> 2 [] k = 2 -> 4 [] k = 3 -> 8
             [] k = 4 -> 16 [] OTHER -> 32

RECURSIVE EncodeBits(_, _, _)
\* Base-32 encoding: the bytes read as a bit string, five bits per
\* character, the last group padded with zero bits.
EncodeBits(bs0, acc0, nbits0) ==
  Only({ IF nbits >= 5
         THEN <<CrockfordAlphabet[(acc \div Pow2(nbits - 5)) + 1]>>
              \o EncodeBits(bs, acc % Pow2(nbits - 5), nbits - 5)
         ELSE IF bs = <<>>
              THEN IF nbits = 0 THEN <<>>
                   ELSE <<CrockfordAlphabet[(acc * Pow2(5 - nbits)) + 1]>>
              ELSE EncodeBits(Tail(bs), acc * 256 + Head(bs), nbits + 8)
           : bs \in {bs0}, acc \in {acc0}, nbits \in {nbits0} })

Encode(bs) == Lit(EncodeBits(bs, 0, 0))

\* The canonical spelling of an identifier text: uppercase.
Canonical(id) == ToUppercase(id)

\* The state of the hash after the bytes of s: every run contributes, by its
\* position in s, the bytes of its character and its length.
HashRuns(s0) ==
  Only({ (7 + Sum([i \in 1..Len(s) |->
                     Only({ i * (131 * Sum(utf8) + 31 * s[i].n + 1)
                              : utf8 \in {Utf8(s[i].c)} })])) % 65536
           : s \in {s0} })

\* The hashing primitive: a fixed-output digest of the bytes of a string,
\* here of two bytes.
Hash(s) == Only({ <<h \div 256, h % 256>> : h \in {HashRuns(s)} })

\* The width in characters of a time-ordered identifier: the encoded
\* length of an 8-byte timestamp.
TimestampIdLength == 13

\* TimestampId::validate_id: the identifier must decode as a time-ordered
\* identifier (fixed width, every character of the alphabet in either case).
TimestampId_validate_id(id0) ==
  Only({ IF CharsCount(id) # TimestampIdLength
         THEN Err("InvalidEncoding")
         ELSE IF \E i \in 1..Len(id) : UpperChar(id[i].c) \notin CrockfordChars
              THEN Err("InvalidEncoding")
              ELSE Ok(TRUE)
           : id \in {id0} })

(***************************************************************************)
(* PubkyAppPost (src/src/post.rs)                                          *)
(***************************************************************************)
MAX_SHORT_CONTENT_LENGTH == 1000
MAX_LONG_CONTENT_LENGTH == 50000

PubkyAppPostKind == {"Short", "Long", "Image", "Video", "Link", "File"}

\* The reserved content of a deleted post, and what replaces it.
DeletedKeyword == Lit(<<"[", "D", "E", "L", "E", "T", "E", "D", "]">>)
EmptyKeyword == Lit(<<"e", "m", "p", "t", "y">>)

\* The content length limit of a kind (sanitize's match on self.kind).
\* A variant of max_content_length in which only Short has the short limit;
\* C6 tells the two apart.
max_content_length_LongByDefault(kind) ==
  CASE kind = "Short" -> MAX_SHORT_CONTENT_LENGTH
    [] OTHER -> MAX_LONG_CONTENT_LENGTH

max_content_length(kind) ==
  CASE kind = "Short" -> MAX_SHORT_CONTENT_LENGTH
    [] kind = "Long" -> MAX_LONG_CONTENT_LENGTH
    [] OTHER -> MAX_SHORT_CONTENT_LENGTH

\* A variant of the first step of sanitize that compares with the reserved
\* keyword before it trims; C5 tells the two apart.
TrimAndReplace_CompareUntrimmed(content) ==
  IF content = DeletedKeyword THEN EmptyKeyword ELSE Trim(content)

\* sanitize: the content, trimmed, the reserved keyword replaced.
TrimAndReplace(content) ==
  Only({ IF trimmed = DeletedKeyword THEN EmptyKeyword ELSE trimmed
           : trimmed \in {Trim(content)} })

\* sanitize: the content.
SanitizeContent(content, kind) ==
  CharsTake(TrimAndReplace(content), max_content_length(kind))

\* sanitize: the parent URI, if present.
SanitizeParent(parent0) ==
  Only({ IF parent # None
         THEN Only({ IF url.ok THEN Some(url.val) ELSE None
                       : url \in {UrlParse(parent[1])} })
         ELSE None
           : parent \in {parent0} })

\* A variant of the embed step that rebuilds the embed with the default
\* kind; C9 tells the two apart.
SanitizeEmbed_DefaultKind(embed0) ==
  Only({ IF embed # None
         THEN Only({ IF url.ok
                     THEN Some([kind |-> "Short", uri |-> url.val])
                     ELSE None
                       : url \in {UrlParse(embed[1].uri)} })
         ELSE None
           : embed \in {embed0} })

\* sanitize: the embed, if present.
SanitizeEmbed(embed0) ==
  Only({ IF embed # None
         THEN Only({ IF url.ok
                     THEN Some([kind |-> embed[1].kind, uri |-> url.val])
                     ELSE None
                       : url \in {UrlParse(embed[1].uri)} })
         ELSE None
           : embed \in {embed0} })

\* sanitize: the attachments, moved into the result as they are.
SanitizeAttachments(attachments) == attachments

\* <PubkyAppPost as Validatable>::sanitize
PubkyAppPost_sanitize(self0) ==
  Only({ [content |-> SanitizeContent(self.content, self.kind),
          kind |-> self.kind,
          parent |-> SanitizeParent(self.parent),
          embed |-> SanitizeEmbed(self.embed),
          attachments |-> SanitizeAttachments(self.attachments)]
           : self \in {self0} })

\* validate: the content length check that follows the identifier check.
ValidateContentLength(self0) ==
  Only({ CASE self.kind = "Short" ->
                IF CharsCount(self.content) > MAX_SHORT_CONTENT_LENGTH
                THEN Err("Validation Error: Post content exceeds maximum length for Short kind")
                ELSE Ok(TRUE)
           [] self.kind = "Long" ->
                IF CharsCount(self.content) > MAX_LONG_CONTENT_LENGTH
                THEN Err("Validation Error: Post content exceeds maximum length for Short kind")
                ELSE Ok(TRUE)
           [] OTHER -> Ok(TRUE)
           : self \in {self0} })

\* <PubkyAppPost as Validatable>::validate
PubkyAppPost_validate(self, id) ==
  Only({ IF ~idCheck.ok THEN idCheck ELSE ValidateContentLength(self)
           : idCheck \in {TimestampId_validate_id(id)} })

(***************************************************************************)
(* PubkyAppTag (src/src/tag.rs)                                            *)
(***************************************************************************)
MAX_TAG_LABEL_LENGTH == 20

\* PubkyAppTag::default()
DefaultTag == [uri |-> <<>>, label |-> <<>>, created_at |-> 0]

\* A variant of get_id_data that includes created_at; C3 tells the two
\* apart.
get_id_data_WithCreatedAt(self0) ==
  Only({ Cat(Cat(Cat(self.uri, Lit(<<":">>)), self.label),
             Lit(<<":", CharOf(48 + self.created_at)>>))
           : self \in {self0} })

\* <PubkyAppTag as HashId>::get_id_data
get_id_data(self0) ==
  Only({ Cat(Cat(self.uri, Lit(<<":">>)), self.label) : self \in {self0} })

\* HashId::create_id: the encoded first half of the digest of the id data.
create_id(self) ==
  Only({ Encode(SubSeq(digest, 1, Len(digest) \div 2))
           : digest \in {Hash(get_id_data(self))} })

\* HashId::validate_id: the identifier recomputed and compared with the
\* claimed one, in canonical spelling.
HashId_validate_id(self, id) ==
  IF Canonical(create_id(self)) # Canonical(id)
  THEN Err("IdentifierMismatch")
  ELSE Ok(TRUE)

TagsPathPrefix ==
  Lit(<<"p", "u", "b", "k", "y", ":", "/", "/", "/", "p", "u", "b", "/",
        "p", "u", "b", "k", "y", ".", "a", "p", "p", "/", "t", "a", "g",
        "s", "/">>)

\* <PubkyAppTag as HasPath>::get_path
get_path(self) == Cat(TagsPathPrefix, create_id(self))

\* sanitize: the label.
SanitizeLabel(label) ==
  CharsTake(ToLowercase(Trim(label)), MAX_TAG_LABEL_LENGTH)

\* A variant of the tag's sanitize that treats the uri as an optional field
\* and empties it when it does not parse; C4 tells the two apart.
PubkyAppTag_sanitize_DiscardUri(self0) ==
  Only({ Ok([uri |-> IF url.ok THEN url.val ELSE <<>>, label |-> label,
             created_at |-> self.created_at])
           : self \in {self0},
             label \in {SanitizeLabel(self0.label)},
             url \in {UrlParse(self0.uri)} })

\* <PubkyAppTag as Validatable>::sanitize
PubkyAppTag_sanitize(self0) ==
  Only({ IF url.ok
         THEN Ok([uri |-> url.val, label |-> label,
                  created_at |-> self.created_at])
         ELSE Err("Invalid URI in tag")
           : self \in {self0},
             label \in {SanitizeLabel(self0.label)},
             url \in {UrlParse(self0.uri)} })

\* A variant of the tag's validate without the identifier check; C2 tells
\* the two apart.
PubkyAppTag_validate_LabelOnly(self0, id) ==
  IF CharsCount(self0.label) > MAX_TAG_LABEL_LENGTH
  THEN Err("Tag label exceeds maximum length")
  ELSE Ok(TRUE)

\* <PubkyAppTag as Validatable>::validate
PubkyAppTag_validate(self0, id) ==
  Only({ IF ~idCheck.ok THEN idCheck
         ELSE IF CharsCount(self.label) > MAX_TAG_LABEL_LENGTH
              THEN Err("Tag label exceeds maximum length")
              ELSE Ok(TRUE)
           : self \in {self0}, idCheck \in {HashId_validate_id(self0, id)} })

\* A variant of PubkyAppTag::new that returns the tag as given when sanitize
\* fails; C10 tells the two apart.
PubkyAppTag_new_KeepRaw(uri, label, created_at) ==
  Only({ IF res.ok THEN res.val ELSE tag
           : tag \in {[uri |-> uri, label |-> label, created_at |-> created_at]},
             res \in {PubkyAppTag_sanitize([uri |-> uri, label |-> label,
                                            created_at |-> created_at])} })

\* PubkyAppTag::new, created_at being the clock's reading.
PubkyAppTag_new(uri, label, created_at) ==
  Only({ IF sanitized.ok THEN sanitized.val ELSE DefaultTag
           : sanitized \in {PubkyAppTag_sanitize(
                              [uri |-> uri, label |-> label,
                               created_at |-> created_at])} })

(***************************************************************************)
(* The validation entry point, Validatable::try_from (crate::traits)       *)
(***************************************************************************)
\* A blob is either the JSON object of a record or bytes that are no JSON
\* object of the record's shape.
JsonBlob(record) == [json |-> TRUE, fields |-> record]
GarbageBlob == [json |-> FALSE]

Deserialize(blob0) ==
  Only({ IF blob.json THEN Ok(blob.fields) ELSE Err("DeserializationError")
           : blob \in {blob0} })

\* try_from after deserialization, for a tag.
TagSanitizeAndValidate(instance, id) ==
  Only({ IF ~sanitized.ok THEN sanitized
         ELSE Only({ IF ~valid.ok THEN valid ELSE Ok(sanitized.val)
                       : valid \in {PubkyAppTag_validate(sanitized.val, id)} })
           : sanitized \in {PubkyAppTag_sanitize(instance)} })

\* <PubkyAppTag as Validatable>::try_from
PubkyAppTag_try_from(blob, id) ==
  Only({ IF ~instance.ok THEN instance
         ELSE TagSanitizeAndValidate(instance.val, id)
           : instance \in {Deserialize(blob)} })

\* try_from after deserialization, for a post.
PostSanitizeAndValidate(instance, id) ==
  Only({ Only({ IF ~valid.ok THEN valid ELSE Ok(sanitized)
                  : valid \in {PubkyAppPost_validate(sanitized, id)} })
           : sanitized \in {PubkyAppPost_sanitize(instance)} })

\* <PubkyAppPost as Validatable>::try_from
PubkyAppPost_try_from(blob, id) ==
  Only({ IF ~instance.ok THEN instance
         ELSE PostSanitizeAndValidate(instance.val, id)
           : instance \in {Deserialize(blob)} })

(***************************************************************************)
(* Bounds and inputs                                                       *)
(***************************************************************************)
\* How often sanitize is applied to one record.
MaxApply == 3
\* The readings of the clock, and the values of created_at, are 1..MaxClock.
MaxClock == 2
\* The length of an attachment list.
MaxAttachments == 2
\* By how many characters an input text exceeds its limit.
MaxExcess == 1

\* URIs: two in normal form, one that parses and is not in normal form, two
\* that do not parse.
UriHttps ==
  Lit(<<"h", "t", "t", "p", "s", ":", "/", "/", "e", "x", ".", "c", "o",
        "/", "p", "/", "1">>)
UriPubky ==
  Lit(<<"p", "u", "b", "k", "y", ":", "/", "/", "i", "d", "/", "p", "u",
        "b", "/", "a", ".", "j", "s", "o", "n">>)
UriUpper ==
  Lit(<<"H", "T", "T", "P", "S", ":", "/", "/", "E", "x", ".", "c", "o">>)
UriInvalid ==
  Lit(<<"i", "n", "v", "a", "l", "i", "d", "_", "u", "r", "i">>)
UriEmpty == <<>>

Uris == {UriHttps, UriPubky, UriUpper, UriInvalid, UriEmpty}

\* Texts around a limit L: short ones, the reserved keyword bare, padded and
\* extended, and texts of L - 1 to L + MaxExcess characters, among them
\* texts whose cut at L falls after whitespace.
TextsAround(L) ==
  { <<>>, Rep("a", 1), Cat(Rep(" ", 2), Cat(Rep("A", 1), Rep(" ", 1))),
    DeletedKeyword, Cat(Rep(" ", 1), Cat(DeletedKeyword, Rep(" ", 2))),
    Cat(DeletedKeyword, Rep("a", 1)), EmptyKeyword, Rep(" ", 3) }
  \cup { Rep("a", n) : n \in (L - 1)..(L + MaxExcess) }
  \cup { Rep(EAcute, L + e) : e \in 1..MaxExcess }
  \cup { Cat(Rep("a", L - 1), Cat(Rep(" ", e), Rep("b", 1))) : e \in 1..MaxExcess }
  \cup { Cat(DeletedKeyword,
             Cat(Rep(" ", L - CharsCount(DeletedKeyword)), Rep("a", e)))
           : e \in 1..MaxExcess }

Parents == {None, Some(UriUpper), Some(UriInvalid)}

Embeds ==
  {None, Some([kind |-> "Video", uri |-> UriUpper]),
   Some([kind |-> "Long", uri |-> UriInvalid])}

\* The sequences over S of length at most n.
SeqsUpTo(S, n) == UNION { [1..k -> S] : k \in 0..n }

AttachmentLists ==
  {None} \cup { Some(q) : q \in SeqsUpTo({UriUpper, UriInvalid}, MaxAttachments) }

\* The posts a run starts from: every kind with every text around its limit,
\* and two texts with every combination of parent, embed and attachments.
InitialPosts ==
  { [content |-> c, kind |-> k, parent |-> None, embed |-> None,
     attachments |-> None]
      : <<k, c>> \in UNION { {k} \X TextsAround(max_content_length(k))
                               : k \in PubkyAppPostKind } }
  \cup
  { [content |-> c, kind |-> "Video", parent |-> p, embed |-> e,
     attachments |-> a]
      : c \in {Cat(Rep(" ", 1), Rep("a", 1)), DeletedKeyword},
        p \in Parents, e \in Embeds, a \in AttachmentLists }

Labels ==
  { Lit(<<"c", "o", "o", "l">>),
    Cat(Rep(" ", 3), Cat(Lit(<<"C", "o", "O", "l">>), Rep(" ", 2))),
    Lit(<<"C", "o", "o", "l", " ", "T", "a", "g">>) }
  \cup { t \in TextsAround(MAX_TAG_LABEL_LENGTH) :
           CharsCount(t) >= MAX_TAG_LABEL_LENGTH - 1 \/ CharsCount(t) <= 1 }

InitialTags ==
  { [uri |-> u, label |-> l, created_at |-> t]
      : u \in Uris, l \in Labels, t \in 1..MaxClock }

\* Claimed identifiers of a post: the example of the documentation, one that
\* is too short, one with a character outside the alphabet.
PostIds ==
  { Lit(<<"0", "0", "3", "2", "1", "F", "C", "W", "7", "5", "Z", "F", "Y">>),
    Lit(<<"I", "N", "V", "A", "L", "I", "D", "I", "D">>),
    Lit(<<"0", "0", "3", "2", "1", "F", "C", "W", "7", "5", "Z", "F", "U">>) }

\* Claimed identifiers of a tag: the one derived from the tag, from its
\* sanitized form, the same in lowercase, and two that are none of these.
OwnIds(tag) ==
  {create_id(tag)}
  \cup { create_id(t.val) : t \in { r \in {PubkyAppTag_sanitize(tag)} : r.ok } }

TagIds(tag) ==
  UNION { {i, ToLowercase(i)} : i \in OwnIds(tag) }
  \cup { Lit(<<"I", "N", "V", "A", "L", "I", "D", "I", "D">>),
         Lit(<<"S", "o", "m", "e", "I", "D">>) }

(***************************************************************************)
(* The state machine: one record, the operations applied to it one after   *)
(* the other, and the last operation with its input and its result.        *)
(***************************************************************************)
VARIABLES
  rec,      \* the record at hand: [type |-> "post" or "tag", val |-> record]
  clean,    \* whether rec is the result of a successful sanitize
  applied,  \* how often sanitize has been applied to reach rec
  last      \* the last operation: [op, arg, argClean, id, res]

vars == <<rec, clean, applied, last>>

\* No record at hand yet.
NoRecord == [type |-> "none", val |-> <<>>]

Call(op, arg, argClean, id, res) ==
  [op |-> op, arg |-> arg, argClean |-> argClean, id |-> id, res |-> res]

Init ==
  /\ rec \in { [type |-> "post", val |-> p] : p \in InitialPosts }
             \cup { [type |-> "tag", val |-> t] : t \in InitialTags }
             \cup { NoRecord }
  /\ clean = FALSE
  /\ applied = 0
  /\ last = Call("init", rec.val, FALSE, <<>>, Ok(TRUE))

\* post.sanitize()
PostSanitize ==
  /\ rec.type = "post"
  /\ applied < MaxApply
  /\ \E out \in {PubkyAppPost_sanitize(rec.val)} :
       /\ rec' = [rec EXCEPT !.val = out]
       /\ last' = Call("post.sanitize", rec.val, clean, <<>>, Ok(out))
  /\ clean' = TRUE
  /\ applied' = applied + 1

\* post.validate(id)
PostValidate ==
  /\ rec.type = "post"
  /\ \E id \in PostIds :
       last' = Call("post.validate", rec.val, clean, id,
                    PubkyAppPost_validate(rec.val, id))
  /\ UNCHANGED <<rec, clean, applied>>

\* PubkyAppPost::try_from(blob, id) on a blob as it arrives: it holds the
\* record at hand, before any operation on it, or no record at all.
PostTryFrom ==
  /\ rec.type = "post"
  /\ applied = 0
  /\ \E id \in PostIds, blob \in {JsonBlob(rec.val), GarbageBlob} :
       \E res \in {PubkyAppPost_try_from(blob, id)} :
         /\ last' = Call("post.try_from", blob, clean, id, res)
         /\ rec' = IF res.ok THEN [rec EXCEPT !.val = res.val] ELSE rec
         /\ clean' = (res.ok \/ clean)
         /\ applied' = IF res.ok THEN applied + 1 ELSE applied

\* tag.sanitize(): the tag is replaced by the result, or lost with an error.
TagSanitize ==
  /\ rec.type = "tag"
  /\ applied < MaxApply
  /\ \E res \in {PubkyAppTag_sanitize(rec.val)} :
       /\ last' = Call("tag.sanitize", rec.val, clean, <<>>, res)
       /\ rec' = IF res.ok THEN [rec EXCEPT !.val = res.val] ELSE rec
       /\ clean' = (res.ok \/ clean)
  /\ applied' = applied + 1

\* tag.validate(id)
TagValidate ==
  /\ rec.type = "tag"
  /\ \E id \in TagIds(rec.val) :
       last' = Call("tag.validate", rec.val, clean, id,
                    PubkyAppTag_validate(rec.val, id))
  /\ UNCHANGED <<rec, clean, applied>>

\* PubkyAppTag::try_from(blob, id) on a blob as it arrives.
TagTryFrom ==
  /\ rec.type = "tag"
  /\ applied = 0
  /\ \E id \in TagIds(rec.val), blob \in {JsonBlob(rec.val), GarbageBlob} :
       \E res \in {PubkyAppTag_try_from(blob, id)} :
         /\ last' = Call("tag.try_from", blob, clean, id, res)
         /\ rec' = IF res.ok THEN [rec EXCEPT !.val = res.val] ELSE rec
         /\ clean' = (res.ok \/ clean)
         /\ applied' = IF res.ok THEN applied + 1 ELSE applied

\* PubkyAppTag::new(uri, label), the clock reading t at construction.
TagNew ==
  /\ rec.type = "none"
  /\ \E uri \in Uris, label \in Labels, t \in 1..MaxClock :
       \E tag \in {PubkyAppTag_new(uri, label, t)} :
         /\ rec' = [type |-> "tag", val |-> tag]
         /\ last' = Call("tag.new",
                         [uri |-> uri, label |-> label, clock |-> t],
                         FALSE, <<>>, Ok(tag))
         /\ clean' = UrlParse(uri).ok
         /\ applied' = 1

Next ==
  \/ PostSanitize
  \/ PostValidate
  \/ PostTryFrom
  \/ TagSanitize
  \/ TagValidate
  \/ TagTryFrom
  \/ TagNew

Spec == Init /\ [][Next]_vars

(***************************************************************************)
(* Properties                                                              *)
(***************************************************************************)
\* Whether p is a prefix of t, run by run.
IsPrefix(p, t) ==
  \/ p = <<>>
  \/ /\ Len(p) <= Len(t)
     /\ \A i \in 1..(Len(p) - 1) : p[i] = t[i]
     /\ p[Len(p)].c = t[Len(p)].c
     /\ p[Len(p)].n <= t[Len(p)].n

\* The limits as the specification states them: 50000 characters for Long,
\* 1000 for every other kind.
StatedContentLimit(kind) == IF kind = "Long" THEN 50000 ELSE 1000

\* The elements of a list of URIs that parse, normalized, in their order.
ParseableNormalized(q) ==
  [i \in 1..Len(SelectSeq(q, LAMBDA u : UrlParse(u).ok)) |->
     UrlParse(SelectSeq(q, LAMBDA u : UrlParse(u).ok)[i]).val]

\* The sanitized forms of the tags a run starts from.
SanitizedInitialTags ==
  { PubkyAppTag_sanitize(t).val : t \in { t \in InitialTags : UrlParse(t.uri).ok } }

\* C1: sanitizing the result of a sanitize changes nothing: a post comes
\* back field by field, a tag comes back with the same uri, label and
\* created_at and without an error.
C1_SanitizeIdempotent ==
  /\ (last.op = "post.sanitize" /\ last.argClean) => last.res.val = last.arg
  /\ (last.op = "tag.sanitize" /\ last.argClean)
       => last.res.ok /\ last.res.val = last.arg

\* C2: validate of a tag returns Ok only for the identifier derived from the
\* tag (in canonical spelling); any other identifier is an identifier
\* mismatch, whatever the label's length; the tag's own identifier with a
\* label of at most 20 characters is accepted.
C2_TamperRejection ==
  last.op = "tag.validate" =>
    /\ last.res.ok => Canonical(last.id) = create_id(last.arg)
    /\ Canonical(last.id) # create_id(last.arg)
         => ~last.res.ok /\ last.res.err = "IdentifierMismatch"
    /\ (last.id = create_id(last.arg)
        /\ CharsCount(last.arg.label) <= 20) => last.res.ok

\* A tag with a label over the limit was validated against another
\* identifier and against its own.
C2_Witness ==
  /\ last.op = "tag.validate"
  /\ CharsCount(last.arg.label) > 20
  /\ last.id # create_id(last.arg)
  /\ ~last.res.ok
  /\ last.res.err = "IdentifierMismatch"

\* C3: a tag at hand and any tag with the same sanitized uri and label have
\* the same identifier and the same path, whatever created_at is; and
\* try_from accepts a raw tag against the identifier of its sanitized form
\* and returns that form.
C3_ContentAddressing ==
  /\ (rec.type = "tag" /\ clean) =>
       \A t \in SanitizedInitialTags :
         (t.uri = rec.val.uri /\ t.label = rec.val.label)
           => /\ create_id(t) = create_id(rec.val)
              /\ get_path(t) = get_path(rec.val)
  /\ (last.op = "tag.try_from" /\ last.arg.json
      /\ UrlParse(last.arg.fields.uri).ok
      /\ last.id = create_id(PubkyAppTag_sanitize(last.arg.fields).val))
       => /\ last.res.ok
          /\ last.res.val = PubkyAppTag_sanitize(last.arg.fields).val

\* try_from accepted the raw label "Cool Tag" against the identifier of
\* "cool tag", which is not the identifier of the raw tag.
C3_Witness ==
  /\ last.op = "tag.try_from"
  /\ last.res.ok
  /\ last.arg.json
  /\ last.arg.fields.label = Lit(<<"C", "o", "o", "l", " ", "T", "a", "g">>)
  /\ last.res.val.label = Lit(<<"c", "o", "o", "l", " ", "t", "a", "g">>)
  /\ last.id # create_id(last.arg.fields)
  /\ \E t \in SanitizedInitialTags :
       /\ t.uri = rec.val.uri
       /\ t.label = rec.val.label
       /\ t.created_at # rec.val.created_at

\* C4: a tag whose uri does not parse makes sanitize fail with "Invalid URI
\* in tag", and try_from fail with the same error for every identifier.
C4_InvalidUriIsHardFailure ==
  /\ (last.op = "tag.sanitize" /\ ~UrlParse(last.arg.uri).ok)
       => ~last.res.ok /\ last.res.err = "Invalid URI in tag"
  /\ (last.op = "tag.try_from" /\ last.arg.json
      /\ ~UrlParse(last.arg.fields.uri).ok)
       => /\ ~last.res.ok
          /\ last.res.err = "Invalid URI in tag"
          /\ rec.val = last.arg.fields

\* try_from failed on "invalid_uri" though the claimed identifier is the one
\* derived from the tag.
C4_Witness ==
  /\ last.op = "tag.try_from"
  /\ last.arg.json
  /\ last.arg.fields.uri = UriInvalid
  /\ last.id = create_id(last.arg.fields)
  /\ ~last.res.ok
  /\ last.res.err = "Invalid URI in tag"

\* C5: the content of a sanitized post is never "[DELETED]", after one
\* sanitize or several; a content that trims to "[DELETED]" becomes "empty".
C5_SentinelNeverSurvives ==
  /\ (rec.type = "post" /\ clean) => rec.val.content # DeletedKeyword
  /\ last.op = "post.sanitize" =>
       /\ last.res.val.content # DeletedKeyword
       /\ Trim(last.arg.content) = DeletedKeyword
            => last.res.val.content = EmptyKeyword

\* A sanitized content that trims to "[DELETED]" (the cut at the limit left
\* whitespace after it) was sanitized again.
C5_Witness ==
  /\ last.op = "post.sanitize"
  /\ last.argClean
  /\ last.arg.content # DeletedKeyword
  /\ Trim(last.arg.content) = DeletedKeyword
  /\ last.res.val.content = EmptyKeyword

\* C6: the sanitized content is the prefix of the trimmed, keyword-replaced
\* content of min(its length, the kind's limit) characters; the sanitized
\* label is the prefix of the trimmed, lowercased label of min(its length,
\* 20) characters.
C6_TruncationByCharacters ==
  /\ last.op = "post.sanitize" =>
       \E t \in { IF Trim(last.arg.content) = DeletedKeyword
                  THEN EmptyKeyword ELSE Trim(last.arg.content) } :
         /\ CharsCount(last.res.val.content)
              = Min(CharsCount(t), StatedContentLimit(last.arg.kind))
         /\ IsPrefix(last.res.val.content, t)
  /\ (last.op = "tag.sanitize" /\ last.res.ok) =>
       \E t \in { ToLowercase(Trim(last.arg.label)) } :
         /\ CharsCount(last.res.val.label)
              = Min(CharsCount(t), 20)
         /\ IsPrefix(last.res.val.label, t)

\* A post of a kind other than Short and Long, of 1001 two-byte characters,
\* was cut to 1000 characters.
C6_Witness ==
  /\ last.op = "post.sanitize"
  /\ last.arg.kind = "Image"
  /\ last.arg.content = Rep(EAcute, 1001)
  /\ last.res.val.content = Rep(EAcute, 1000)

\* C7: the attachments of a sanitized post are the normalized forms of the
\* elements that parse, in their order.
C7_AttachmentsElementWise ==
  (last.op = "post.sanitize" /\ last.arg.attachments # None) =>
    last.res.val.attachments
      = Some(ParseableNormalized(last.arg.attachments[1]))

\* C8: with an identifier that passes, validate rejects a post whose content
\* is longer than its kind's limit and a tag whose label is longer than 20
\* characters, the latter with "Tag label exceeds maximum length".
C8_ValidateRechecksLengths ==
  /\ (last.op = "post.validate" /\ TimestampId_validate_id(last.id).ok
      /\ CharsCount(last.arg.content) > StatedContentLimit(last.arg.kind))
       => ~last.res.ok
  /\ (last.op = "tag.validate" /\ HashId_validate_id(last.arg, last.id).ok
      /\ CharsCount(last.arg.label) > 20)
       => ~last.res.ok /\ last.res.err = "Tag label exceeds maximum length"

\* C9: sanitize of a post drops a parent or an embed whose URI does not
\* parse, normalizes the ones that parse, keeps the embed's kind, and a bad
\* parent or embed leaves kind and content as they are with good ones.
C9_BadOptionalUrisDegrade ==
  last.op = "post.sanitize" =>
    /\ last.res.ok
    /\ last.res.val.parent =
         (IF last.arg.parent = None \/ ~UrlParse(last.arg.parent[1]).ok
          THEN None
          ELSE Some(UrlParse(last.arg.parent[1]).val))
    /\ last.res.val.embed =
         (IF last.arg.embed = None \/ ~UrlParse(last.arg.embed[1].uri).ok
          THEN None
          ELSE Some([kind |-> last.arg.embed[1].kind,
                     uri |-> UrlParse(last.arg.embed[1].uri).val]))
    /\ last.res.val.kind = last.arg.kind
    /\ last.res.val.content =
         PubkyAppPost_sanitize(
           [last.arg EXCEPT !.parent = Some(UriHttps),
                            !.embed = Some([kind |-> "Short",
                                            uri |-> UriHttps])]).content

\* A post with a parent that does not parse and an embed that does was
\* sanitized.
C9_Witness ==
  /\ last.op = "post.sanitize"
  /\ last.arg.parent = Some(UriInvalid)
  /\ last.arg.embed = Some([kind |-> "Video", uri |-> UriUpper])
  /\ last.res.val.parent = None
  /\ last.res.val.embed # None
  /\ last.res.val.embed[1].uri # UriUpper

\* C10: PubkyAppTag::new returns the sanitized tag stamped with the clock's
\* reading when the uri parses and the default tag when it does not; the
\* result's uri parses iff the input's does, and every construction from a
\* uri that does not parse has the identifier of ":".
C10_NewNeverFails ==
  last.op = "tag.new" =>
    /\ last.res.ok
    /\ rec.val = last.res.val
    /\ UrlParse(last.res.val.uri).ok <=> UrlParse(last.arg.uri).ok
    /\ UrlParse(last.arg.uri).ok =>
         last.res.val = [uri |-> UrlParse(last.arg.uri).val,
                         label |-> CharsTake(ToLowercase(Trim(last.arg.label)),
                                             20),
                         created_at |-> last.arg.clock]
    /\ ~UrlParse(last.arg.uri).ok =>
         /\ last.res.val = [uri |-> <<>>, label |-> <<>>, created_at |-> 0]
         /\ create_id(last.res.val)
              = Encode(SubSeq(Hash(Lit(<<":">>)), 1, 1))

\* A tag was constructed from "invalid_uri" and a label.
C10_Witness ==
  /\ last.op = "tag.new"
  /\ last.arg.uri = UriInvalid
  /\ last.arg.label # <<>>
  /\ rec.val.uri = <<>>
  /\ rec.val.created_at = 0

=============================================================================
